---- MODULE Spec2Model ----
(***************************************************************************)
(* Acclaim ASF/AMC motion-capture notebook                                 *)
(* (assignment_1/3D/motion_capture_visualization.ipynb): the Joint class,  *)
(* the ASF and AMC parsers, forward kinematics (Joint.set_motion) and the  *)
(* frame drivers (visualize_skeleton, create_3d_animation, the dashboard). *)
(*                                                                         *)
(* Numbers.  Angles are whole multiples of 90 degrees, so that every sine  *)
(* and cosine is -1, 0 or 1 and every matrix product is exact integer      *)
(* arithmetic; lengths, directions and translations are integers.          *)
(* Python's None is NoneVal (the empty tuple) for a coordinate or a        *)
(* matrix and NoneRef for an object reference.  A raised exception is a    *)
(* status string ("KeyError", "IndexError", ...); "ok" is normal return.   *)
(***************************************************************************)
EXTENDS Integers, Sequences, FiniteSets, TLC

VARIABLES
    pc,        \* position in the notebook run
    asf,       \* lines of the skeleton file (each a sequence of tokens)
    amc,       \* lines of the motion file
    joints,    \* the dict parse_asf returned: name -> Joint
    motions,   \* the list parse_amc returned: sequence of frames
    err,       \* status of the last parse
    last,      \* the last viewer call: what it was asked and how it ended
    rendered,  \* what the last viewer call handed to the plotting layer
    drv        \* the animation / dashboard driver: frames, timer, widgets

vars == <<pc, asf, amc, joints, motions, err, last, rendered, drv>>

NoneVal == <<>>
NoneRef == "None"
\* No animation or dashboard was started.
NoDriver == [kind |-> "none"]

\* ---------------------------------------------------------------- bounds
\* Python's recursion limit (sys.getrecursionlimit()), scaled down: a call
\* chain deeper than this raises RecursionError.
RecursionLimit == 6
\* Number of frames of the motion sequences drawn in Init.
NumFrames == 2

\* ------------------------------------------------------------ arithmetic
Range(s) == {s[i] : i \in DOMAIN s}

\* np.deg2rad on one angle: the angle as a number of quarter turns.
deg2rad1(d) == (d \div 90) % 4
\* np.deg2rad on an array.
deg2rad(v) == [i \in DOMAIN v |-> deg2rad1(v[i])]

Cos(q) == CASE q = 0 -> 1 [] q = 1 -> 0 [] q = 2 -> -1 [] OTHER -> 0
Sin(q) == CASE q = 0 -> 0 [] q = 1 -> 1 [] q = 2 -> 0 [] OTHER -> -1

\* transforms3d.euler.euler2mat(ai, aj, ak), default axes 'sxyz'.
euler2mat(a) ==
    LET si == Sin(a[1])  sj == Sin(a[2])  sk == Sin(a[3])
        ci == Cos(a[1])  cj == Cos(a[2])  ck == Cos(a[3])
        cc == ci * ck    cs == ci * sk
        sc == si * ck    ss == si * sk
    IN  << << cj * ck, sj * sc - cs, sj * cc + ss >>,
           << cj * sk, sj * ss + cc, sj * cs - sc >>,
           << -sj,     cj * si,      cj * ci      >> >>

\* A.dot(B) for 3x3 matrices.
dot(A, B) ==
    [i \in 1..3 |-> [j \in 1..3 |->
        A[i][1] * B[1][j] + A[i][2] * B[2][j] + A[i][3] * B[3][j]]]

\* A.dot(v) for a 3x3 matrix and a [3, 1] column.
dotv(A, v) ==
    [i \in 1..3 |-> A[i][1] * v[1] + A[i][2] * v[2] + A[i][3] * v[3]]

\* np.linalg.inv of a rotation matrix: its transpose.
inv(A) == [i \in 1..3 |-> [j \in 1..3 |-> A[j][i]]]

vadd(u, v) == [i \in 1..3 |-> u[i] + v[i]]
scale(k, v) == [i \in 1..3 |-> k * v[i]]

Zeros3 == <<0, 0, 0>>
Zeros2 == <<0, 0>>

\* ----------------------------------------------------------- Joint class
\* The slot of self.limits a DOF tag selects (rx -> 0, ry -> 1, else 2),
\* counted from 1 here.
LimitSlot(nm) == IF nm = "rx" THEN 1 ELSE IF nm = "ry" THEN 2 ELSE 3

\* self.limits[slot] = lm: numpy assigns a length-2 list as it is, broadcasts
\* a length-1 list and raises ValueError on any other length.
RECURSIVE assign_limits(_, _, _, _)
assign_limits(limits, dof, i, acc) ==
    IF i > Len(limits) \/ i > Len(dof) THEN [status |-> "ok", limits |-> acc]
    ELSE LET lm == limits[i]
             slot == LimitSlot(dof[i])
         IN  IF Len(lm) = 2
             THEN assign_limits(limits, dof, i + 1, [acc EXCEPT ![slot] = lm])
             ELSE IF Len(lm) = 1
             THEN assign_limits(limits, dof, i + 1,
                                [acc EXCEPT ![slot] = <<lm[1], lm[1]>>])
             ELSE [status |-> "ValueError", limits |-> acc]

\* Joint.__init__: [status, joint].
Joint(name, direction, length, axis, dof, limits) ==
    IF Len(direction) # 3 THEN [status |-> "ValueError", joint |-> NoneVal]
    ELSE IF Len(axis) # 3 THEN [status |-> "TypeError", joint |-> NoneVal]
    ELSE
      LET C == euler2mat(deg2rad(axis))
          lim == assign_limits(limits, dof, 1, <<Zeros2, Zeros2, Zeros2>>)
      IN  IF lim.status # "ok" THEN [status |-> lim.status, joint |-> NoneVal]
          ELSE [status |-> "ok",
                joint |-> [name |-> name,
                           direction |-> direction,
                           length |-> length,
                           C |-> C,
                           Cinv |-> inv(C),
                           limits |-> lim.limits,
                           parent |-> NoneRef,
                           children |-> <<>>,
                           coordinate |-> NoneVal,
                           matrix |-> NoneVal]]

\* The loop of set_motion over self.limits: the local rotation vector, or the
\* exception motion[self.name][idx] raises.
RECURSIVE rotation_loop(_, _, _, _, _)
rotation_loop(self, motion, axis, idx, rotation) ==
    IF axis > 3 THEN [status |-> "ok", rotation |-> rotation]
    ELSE IF self.limits[axis] # Zeros2
    THEN IF self.name \notin DOMAIN motion
         THEN [status |-> "KeyError", rotation |-> rotation]
         ELSE IF idx + 1 > Len(motion[self.name])
         THEN [status |-> "IndexError", rotation |-> rotation]
         ELSE rotation_loop(self, motion, axis + 1, idx + 1,
                  [rotation EXCEPT ![axis] = motion[self.name][idx + 1]])
    ELSE rotation_loop(self, motion, axis + 1, idx, rotation)

LocalRotation(self, motion) == rotation_loop(self, motion, 1, 0, Zeros3)

\* set_root with the translation added to the coordinate root already has.
set_root_accumulating(js, motion) ==
    IF "root" \notin DOMAIN motion THEN [status |-> "KeyError", joints |-> js]
    ELSE LET e == motion["root"]
             old == js["root"].coordinate
         IN  IF Len(e) # 6 THEN [status |-> "TypeError", joints |-> js]
             ELSE [status |-> "ok",
                   joints |-> [js EXCEPT
                       !["root"].coordinate =
                           IF old = NoneVal THEN SubSeq(e, 1, 3)
                           ELSE vadd(old, SubSeq(e, 1, 3)),
                       !["root"].matrix =
                           dot(dot(js["root"].C, euler2mat(deg2rad(SubSeq(e, 4, 6)))),
                               js["root"].Cinv)]]

\* set_root with the translation turned by root's new rotation.
set_root_rotated(js, motion) ==
    IF "root" \notin DOMAIN motion THEN [status |-> "KeyError", joints |-> js]
    ELSE LET e == motion["root"]
         IN  IF Len(e) # 6 THEN [status |-> "TypeError", joints |-> js]
             ELSE LET matrix == dot(dot(js["root"].C,
                                        euler2mat(deg2rad(SubSeq(e, 4, 6)))),
                                    js["root"].Cinv)
                  IN  [status |-> "ok",
                       joints |-> [js EXCEPT
                           !["root"].coordinate = dotv(matrix, SubSeq(e, 1, 3)),
                           !["root"].matrix = matrix]]

\* The body of set_motion for the root joint (the `if` branch).
set_root(js, motion) ==
    IF "root" \notin DOMAIN motion THEN [status |-> "KeyError", joints |-> js]
    ELSE LET e == motion["root"]
         IN  IF Len(e) < 3 THEN [status |-> "ValueError", joints |-> js]
             ELSE LET js1 == [js EXCEPT !["root"].coordinate = SubSeq(e, 1, 3)]
                  IN  IF Len(e) # 6 THEN [status |-> "TypeError", joints |-> js1]
                      ELSE LET self == js["root"]
                               rotation == deg2rad(SubSeq(e, 4, 6))
                           IN  [status |-> "ok",
                                joints |-> [js1 EXCEPT !["root"].matrix =
                                    dot(dot(self.C, euler2mat(rotation)), self.Cinv)]]

\* set_other with the bone laid along the parent's rotation, not the joint's.
set_other_parent_matrix(js, name, motion) ==
    LET self == js[name]
        loc == LocalRotation(self, motion)
    IN  IF loc.status # "ok" THEN [status |-> loc.status, joints |-> js]
        ELSE IF self.parent = NoneRef \/ js[self.parent].matrix = NoneVal
        THEN [status |-> "AttributeError", joints |-> js]
        ELSE LET parent == js[self.parent]
                 matrix == dot(dot(dot(parent.matrix, self.C),
                                   euler2mat(deg2rad(loc.rotation))), self.Cinv)
             IN  [status |-> "ok",
                  joints |-> [js EXCEPT
                      ![name].matrix = matrix,
                      ![name].coordinate =
                          vadd(parent.coordinate,
                               scale(self.length, dotv(parent.matrix, self.direction)))]]

\* The body of set_motion for any other joint (the `else` branch).
set_other(js, name, motion) ==
    LET self == js[name]
        loc == LocalRotation(self, motion)
    IN  IF loc.status # "ok" THEN [status |-> loc.status, joints |-> js]
        ELSE IF self.parent = NoneRef \/ js[self.parent].matrix = NoneVal
        THEN [status |-> "AttributeError", joints |-> js]
        ELSE LET parent == js[self.parent]
                 rotation == deg2rad(loc.rotation)
                 matrix == dot(dot(dot(parent.matrix, self.C),
                                   euler2mat(rotation)), self.Cinv)
                 js1 == [js EXCEPT ![name].matrix = matrix]
             IN  IF parent.coordinate = NoneVal
                 THEN [status |-> "TypeError", joints |-> js1]
                 ELSE [status |-> "ok",
                       joints |-> [js1 EXCEPT ![name].coordinate =
                           vadd(parent.coordinate,
                                scale(self.length, dotv(matrix, self.direction)))]]

\* The joint's own part of set_motion, before the loop over its children.
set_own(js, name, motion) ==
    IF name = "root" THEN set_root(js, motion) ELSE set_other(js, name, motion)

\* Joint.set_motion, the recursion included.  st = [joints, status, visits]:
\* the joint objects, how the call ended, and the joints whose own part ran
\* to completion, in order.  depth is the depth of the Python call stack.
RECURSIVE set_motion(_, _, _, _)
RECURSIVE set_children(_, _, _, _, _)
set_motion(st, name, motion, depth) ==
    IF depth > RecursionLimit THEN [st EXCEPT !.status = "RecursionError"]
    ELSE LET own == set_own(st.joints, name, motion)
         IN  IF own.status # "ok"
             THEN [st EXCEPT !.joints = own.joints, !.status = own.status]
             ELSE set_children([st EXCEPT !.joints = own.joints,
                                          !.visits = Append(@, name)],
                               name, 1, motion, depth)

set_children(st, name, i, motion, depth) ==
    IF i > Len(st.joints[name].children) THEN st
    ELSE LET r == set_motion(st, st.joints[name].children[i], motion, depth + 1)
         IN  IF r.status # "ok" THEN r
             ELSE set_children(r, name, i + 1, motion, depth)

\* ApplyFrame that also puts every other joint without a parent at the origin.
ApplyFrame_posing_orphans(js, motion) ==
    LET r == set_motion([joints |-> js, status |-> "ok", visits |-> <<>>],
                        "root", motion, 1)
    IN  IF r.status # "ok" THEN r
        ELSE [r EXCEPT !.joints =
                 [n \in DOMAIN js |->
                     IF n # "root" /\ js[n].parent = NoneRef
                     THEN [r.joints[n] EXCEPT !.coordinate = Zeros3,
                                              !.matrix = euler2mat(Zeros3)]
                     ELSE r.joints[n]]]

\* joints['root'].set_motion(motion) as the viewers call it.
ApplyFrame(js, motion) ==
    set_motion([joints |-> js, status |-> "ok", visits |-> <<>>],
               "root", motion, 1)

\* Joint.to_dict: the joints reachable from `name`, in insertion order of the
\* dict (a key met again keeps its first position).
RECURSIVE to_dict(_, _, _)
RECURSIVE to_dict_children(_, _, _, _, _)
AddKey(keys, k) == IF k \in Range(keys) THEN keys ELSE Append(keys, k)
RECURSIVE AddKeys(_, _)
AddKeys(keys, more) ==
    IF more = <<>> THEN keys ELSE AddKeys(AddKey(keys, Head(more)), Tail(more))

to_dict(js, name, depth) ==
    IF depth > RecursionLimit THEN [status |-> "RecursionError", keys |-> <<>>]
    ELSE to_dict_children(js, name, 1, <<name>>, depth)

to_dict_children(js, name, i, ret, depth) ==
    IF i > Len(js[name].children) THEN [status |-> "ok", keys |-> ret]
    ELSE LET r == to_dict(js, js[name].children[i], depth + 1)
         IN  IF r.status # "ok" THEN r
             ELSE to_dict_children(js, name, i + 1, AddKeys(ret, r.keys), depth)

\* ------------------------------------------------------- text and tokens
\* A file is a sequence of lines (f.read().splitlines()); line.strip().split()
\* is a sequence of tokens.  A token is a word, or a number that may carry an
\* opening or a closing parenthesis: "(-90" and "90)".
W(s) == <<"w", s>>
N(v) == <<"n", v>>
LP(v) == <<"(n", v>>
RP(v) == <<"n)", v>>

IsNum(t) == t[1] # "w"
\* The text of a word token (a number is never used as a name here).
Text(t) == IF IsNum(t) THEN "#" ELSE t[2]
IsWord(t, s) == ~IsNum(t) /\ t[2] = s
\* float(t) succeeds on a bare number only.
IsFloat(t) == t[1] = "n"
\* str.isnumeric(): only digits.
isnumeric(t) == t[1] = "n" /\ t[2] >= 0

\* list(map(float, toks)).
floats(toks) ==
    IF \A i \in DOMAIN toks : IsFloat(toks[i])
    THEN [status |-> "ok", vals |-> [i \in DOMAIN toks |-> toks[i][2]]]
    ELSE [status |-> "ValueError", vals |-> <<>>]

\* ' '.join(toks).replace('(', '').replace(')', '').split(), then float.
strip_floats(toks) ==
    IF \A i \in DOMAIN toks : IsNum(toks[i])
    THEN [status |-> "ok", vals |-> [i \in DOMAIN toks |-> toks[i][2]]]
    ELSE [status |-> "ValueError", vals |-> <<>>]

\* content.index(line): the 0-based position of the first line equal to it,
\* or -1 for ValueError.
RECURSIVE index_from(_, _, _)
index_from(content, line, i) ==
    IF i > Len(content) THEN -1
    ELSE IF content[i] = line THEN i - 1
    ELSE index_from(content, line, i + 1)
index(content, line) == index_from(content, line, 1)

\* dict.update({k: v}).
update(d, k, v) == (k :> v) @@ d
\* dict.get(k, default).
get(d, k, default) == IF k \in DOMAIN d THEN d[k] ELSE default

\* ------------------------------------------------------------ ASF parser
\* One handler of parse_joint_block applied to a line whose key it matches:
\* [status, joint].
handle(joint, key, l) ==
    CASE key = "name" ->
           IF Len(l) < 2 THEN [status |-> "IndexError", joint |-> joint]
           ELSE [status |-> "ok", joint |-> update(joint, "name", Text(l[2]))]
      [] key = "direction" ->
           LET f == floats(Tail(l))
           IN  [status |-> f.status,
                joint |-> IF f.status = "ok"
                          THEN update(joint, "direction", f.vals) ELSE joint]
      [] key = "length" ->
           IF Len(l) < 2 THEN [status |-> "IndexError", joint |-> joint]
           ELSE IF ~IsFloat(l[2]) THEN [status |-> "ValueError", joint |-> joint]
           ELSE [status |-> "ok", joint |-> update(joint, "length", l[2][2])]
      [] key = "axis" ->
           LET f == floats(SubSeq(l, 2, Len(l) - 1))
           IN  [status |-> f.status,
                joint |-> IF f.status = "ok"
                          THEN update(joint, "axis", f.vals) ELSE joint]
      [] key = "dof" ->
           [status |-> "ok",
            joint |-> update(joint, "dof", [i \in 1..(Len(l) - 1) |-> Text(l[i + 1])])]
      [] key = "limits" ->
           LET f == strip_floats(Tail(l))
           IN  [status |-> f.status,
                joint |-> IF f.status = "ok"
                          THEN update(joint, "limits",
                                      Append(get(joint, "limits", <<>>), f.vals))
                          ELSE joint]

Handlers == {"name", "direction", "length", "axis", "dof", "limits"}

\* parse_joint_block(content, start_idx): [status, joint, idx], idx 0-based.
RECURSIVE block_loop(_, _, _)
block_loop(content, idx, joint) ==
    IF idx + 1 > Len(content) \/ content[idx + 1] = <<>>
    THEN [status |-> "IndexError", joint |-> joint, idx |-> idx]
    ELSE LET line == content[idx + 1]
             key == line[1]
         IN  IF IsWord(key, "end")
             THEN [status |-> "ok", joint |-> joint, idx |-> idx + 1]
             ELSE IF Text(key) \in Handlers
             THEN LET h == handle(joint, Text(key), line)
                  IN  IF h.status # "ok"
                      THEN [status |-> h.status, joint |-> joint, idx |-> idx + 1]
                      ELSE block_loop(content, idx + 1, h.joint)
             ELSE block_loop(content, idx + 1, joint)

parse_joint_block(content, start_idx) == block_loop(content, start_idx, <<>>)

\* read_section_after(content, keyword); the caller checks index() first.
read_section_after(content, keyword) ==
    SubSeq(content, index(content, <<W(keyword)>>) + 2, Len(content))

\* link_children passing over a child name that is no key of joints.
RECURSIVE link_children_skip_unknown(_, _, _, _)
link_children_skip_unknown(js, parent, line, i) ==
    IF i > Len(line) THEN [status |-> "ok", joints |-> js]
    ELSE LET child_name == Text(line[i])
         IN  IF child_name \notin DOMAIN js
             THEN link_children_skip_unknown(js, parent, line, i + 1)
             ELSE LET js1 == [js EXCEPT ![parent].children = Append(@, child_name)]
                      js2 == [js1 EXCEPT ![child_name].parent = parent]
                  IN  link_children_skip_unknown(js2, parent, line, i + 1)

\* The inner loop of parse_hierarchy over the children named on one line:
\* [status, joints].
RECURSIVE link_children(_, _, _, _)
link_children(js, parent, line, i) ==
    IF i > Len(line) THEN [status |-> "ok", joints |-> js]
    ELSE LET child_name == Text(line[i])
         IN  IF child_name \notin DOMAIN js
             THEN [status |-> "KeyError", joints |-> js]
             ELSE LET js1 == [js EXCEPT ![parent].children = Append(@, child_name)]
                      js2 == [js1 EXCEPT ![child_name].parent = parent]
                  IN  link_children(js2, parent, line, i + 1)

\* The second loop of parse_hierarchy: the lines up to `end`.
RECURSIVE hierarchy_lines(_, _, _)
hierarchy_lines(content, idx, js) ==
    IF idx + 1 > Len(content) \/ content[idx + 1] = <<>>
    THEN [status |-> "IndexError", joints |-> js]
    ELSE LET line == content[idx + 1]
         IN  IF IsWord(line[1], "end") THEN [status |-> "ok", joints |-> js]
             ELSE IF Text(line[1]) \notin DOMAIN js
             THEN [status |-> "KeyError", joints |-> js]
             ELSE LET r == link_children(js, Text(line[1]), line, 2)
                  IN  IF r.status # "ok" THEN r
                      ELSE hierarchy_lines(content, idx + 1, r.joints)

\* The first loop of parse_hierarchy: skip to the line after `begin`.
RECURSIVE skip_to_begin(_, _)
skip_to_begin(content, idx) ==
    IF idx + 1 > Len(content) \/ content[idx + 1] = <<>> THEN -1
    ELSE IF IsWord(content[idx + 1][1], "begin") THEN idx + 1
    ELSE skip_to_begin(content, idx + 1)

\* parse_hierarchy(content, idx, joints): [status, joints].
parse_hierarchy(content, idx, js) ==
    LET b == skip_to_begin(content, idx)
    IN  IF b < 0 THEN [status |-> "IndexError", joints |-> js]
        ELSE hierarchy_lines(content, b, js)

\* JointOf with zeros for a direction, length or axis the block left out.
JointOf_lenient(joint_data) ==
    IF "name" \in DOMAIN joint_data
    THEN Joint(joint_data["name"], get(joint_data, "direction", Zeros3),
               get(joint_data, "length", 0), get(joint_data, "axis", Zeros3),
               get(joint_data, "dof", <<>>), get(joint_data, "limits", <<>>))
    ELSE [status |-> "KeyError", joint |-> NoneVal]

\* Joint(...) from the dict parse_joint_block filled: [status, joint].
JointOf(joint_data) ==
    IF {"name", "direction", "length", "axis"} \subseteq DOMAIN joint_data
    THEN Joint(joint_data["name"], joint_data["direction"],
               joint_data["length"], joint_data["axis"],
               get(joint_data, "dof", <<>>), get(joint_data, "limits", <<>>))
    ELSE [status |-> "KeyError", joint |-> NoneVal]

RootJoint == Joint("root", Zeros3, 0, Zeros3, <<>>, <<>>).joint

\* The while loop of parse_asf over the bone section: [status, joints, idx].
RECURSIVE bone_loop(_, _, _)
bone_loop(content, idx, js) ==
    IF idx >= Len(content) THEN [status |-> "ok", joints |-> js, idx |-> idx]
    ELSE LET line == content[idx + 1]
         IN  IF line = <<>>
             THEN [status |-> "IndexError", joints |-> js, idx |-> idx + 1]
             ELSE IF IsWord(line[1], ":hierarchy")
             THEN [status |-> "ok", joints |-> js, idx |-> idx + 1]
             ELSE IF ~IsWord(line[1], "begin")
             THEN bone_loop(content, idx + 1, js)
             ELSE LET b == parse_joint_block(content, idx + 1)
                      j == JointOf(b.joint)
                  IN  IF b.status # "ok"
                      THEN [status |-> b.status, joints |-> js, idx |-> b.idx]
                      ELSE IF j.status # "ok"
                      THEN [status |-> j.status, joints |-> js, idx |-> b.idx]
                      ELSE bone_loop(content, b.idx,
                                     update(js, b.joint["name"], j.joint))

\* parse_asf on the lines of the file: [status, joints]; joints is what the
\* call returns, nothing (NoneVal) when it raises.
parse_asf(lines) ==
    IF index(lines, <<W(":bonedata")>>) < 0
    THEN [status |-> "ValueError", joints |-> NoneVal]
    ELSE LET content == read_section_after(lines, ":bonedata")
             b == bone_loop(content, 0, "root" :> RootJoint)
             h == parse_hierarchy(content, b.idx, b.joints)
         IN  IF b.status # "ok" THEN [status |-> b.status, joints |-> NoneVal]
             ELSE IF h.status # "ok" THEN [status |-> h.status, joints |-> NoneVal]
             ELSE [status |-> "ok", joints |-> h.joints]

\* ------------------------------------------------------------ AMC parser
\* The while loop of parse_amc: [status, frames, current_frame].
RECURSIVE amc_loop(_, _, _, _)
amc_loop(content, idx, frames, current_frame) ==
    IF idx >= Len(content)
    THEN [status |-> "ok", frames |-> frames, current_frame |-> current_frame]
    ELSE LET line == content[idx + 1]
         IN  IF line = <<>> THEN amc_loop(content, idx + 1, frames, current_frame)
             ELSE IF isnumeric(line[1])
             THEN IF DOMAIN current_frame # {}
                  THEN amc_loop(content, idx + 1, Append(frames, current_frame), <<>>)
                  ELSE amc_loop(content, idx + 1, frames, current_frame)
             ELSE LET f == floats(Tail(line))
                  IN  IF f.status # "ok"
                      THEN [status |-> f.status, frames |-> frames,
                            current_frame |-> current_frame]
                      ELSE amc_loop(content, idx + 1, frames,
                                    update(current_frame, Text(line[1]), f.vals))

\* parse_amc without the append that closes the last frame at end of input.
parse_amc_last_frame_open(lines) ==
    IF index(lines, <<W(":DEGREES")>>) < 0
    THEN [status |-> "ValueError", frames |-> NoneVal]
    ELSE LET content == SubSeq(lines, index(lines, <<W(":DEGREES")>>) + 2, Len(lines))
             r == amc_loop(content, 0, <<>>, <<>>)
         IN  IF r.status # "ok" THEN [status |-> r.status, frames |-> NoneVal]
             ELSE [status |-> "ok", frames |-> r.frames]

\* parse_amc on the lines of the file: [status, frames].
parse_amc(lines) ==
    IF index(lines, <<W(":DEGREES")>>) < 0
    THEN [status |-> "ValueError", frames |-> NoneVal]
    ELSE LET content == SubSeq(lines, index(lines, <<W(":DEGREES")>>) + 2, Len(lines))
             r == amc_loop(content, 0, <<>>, <<>>)
         IN  IF r.status # "ok" THEN [status |-> r.status, frames |-> NoneVal]
             ELSE [status |-> "ok",
                   frames |-> IF DOMAIN r.current_frame # {}
                              THEN Append(r.frames, r.current_frame)
                              ELSE r.frames]

\* --------------------------------------------------------------- viewers
\* The display order of the plots: Z, X, Y.
zxy(c) == <<c[3], c[1], c[2]>>

\* The coordinates read for the scatter plot, in to_dict order: [status,
\* coords]; reading coordinate[i, 0] of None raises TypeError.
scatter(js, keys) ==
    IF \E i \in DOMAIN keys : js[keys[i]].coordinate = NoneVal
    THEN [status |-> "TypeError", coords |-> <<>>]
    ELSE [status |-> "ok",
          coords |-> [i \in DOMAIN keys |->
                         [name |-> keys[i], at |-> zxy(js[keys[i]].coordinate)]]]

\* The bone loop of update_3d_scene: one line object per joint that has a
\* parent, while line objects are left: [status, segs].
RECURSIVE bone_lines(_, _, _, _, _)
bone_lines(js, keys, i, nlines, segs) ==
    IF i > Len(keys) THEN [status |-> "ok", segs |-> segs]
    ELSE LET j == js[keys[i]]
         IN  IF j.parent # NoneRef /\ Len(segs) < nlines
             THEN IF js[j.parent].coordinate = NoneVal
                  THEN [status |-> "TypeError", segs |-> segs]
                  ELSE bone_lines(js, keys, i + 1, nlines,
                           Append(segs, [child |-> j.name, parent |-> j.parent,
                                         from |-> zxy(j.coordinate),
                                         to |-> zxy(js[j.parent].coordinate)]))
             ELSE bone_lines(js, keys, i + 1, nlines, segs)

\* What a viewer call comes to: how it ended, the joint objects it leaves,
\* the frame it applied (-1: none), the joints set_motion completed, and the
\* points and segments given to the plot (nothing when it raised).
Outcome(status, js, applied, visits, coords, segs) ==
    [status |-> status, joints |-> js, applied |-> applied, visits |-> visits,
     coords |-> IF status = "ok" THEN coords ELSE <<>>,
     segs |-> IF status = "ok" THEN segs ELSE <<>>]

\* Reading the joints for the plot after the frame was (or was not) applied.
draw(js, applied, visits, nlines) ==
    LET d == to_dict(js, "root", 1)
        sc == scatter(js, d.keys)
        bl == bone_lines(js, d.keys, 1, nlines, <<>>)
    IN  IF d.status # "ok" THEN Outcome(d.status, js, applied, visits, <<>>, <<>>)
        ELSE IF sc.status # "ok" THEN Outcome(sc.status, js, applied, visits, <<>>, <<>>)
        ELSE Outcome(bl.status, js, applied, visits, sc.coords, bl.segs)

\* update_3d_scene(joints, motions, frame_idx, scat, lines, ax), with
\* nlines = len(lines).
update_3d_scene(js, ms, frame_idx, nlines) ==
    IF frame_idx >= Len(ms) THEN Outcome("IndexError", js, -1, <<>>, <<>>, <<>>)
    ELSE LET r == ApplyFrame(js, ms[frame_idx + 1])
         IN  IF r.status # "ok"
             THEN Outcome(r.status, r.joints, frame_idx, r.visits, <<>>, <<>>)
             ELSE draw(r.joints, frame_idx, r.visits, nlines)

\* A handle on a dict of joint objects: which objects they are ("caller":
\* the ones the caller holds, "copy": fresh ones) and their state.
Handle(id, js) == [id |-> id, joints |-> js]

\* A deepcopy that hands back the objects it was given.
deepcopy_alias(h) == h

\* copy.deepcopy(joints): new objects in the same state.
deepcopy(h) == Handle("copy", h.joints)

\* visualize_skeleton(joints, motion_data=md, motion_frame=k); md is NoneVal
\* for None.  The outcome's joints are the caller's objects after the call:
\* as they were, unless current_joints are those very objects.
visualize_skeleton(js, md, motion_frame) ==
    LET current_joints == deepcopy(Handle("caller", js))
        nbones == Cardinality(DOMAIN js)
        callers(written) == IF current_joints.id = "caller" THEN written ELSE js
    IN  IF md # NoneVal /\ motion_frame < Len(md)
        THEN LET r == ApplyFrame(current_joints.joints, md[motion_frame + 1])
             IN  IF r.status # "ok"
                 THEN Outcome(r.status, callers(r.joints), motion_frame, r.visits,
                              <<>>, <<>>)
                 ELSE [draw(r.joints, motion_frame, r.visits, nbones)
                          EXCEPT !.joints = callers(r.joints)]
        ELSE [draw(current_joints.joints, -1, <<>>, nbones) EXCEPT !.joints = js]

\* ---------------------------------------------------------- input files
\* A bone block of the skeleton file.  `layout` is how the limit pairs are
\* written: "cont" the first pair on the `limits` line and one pair on each
\* following line (the Acclaim layout), "same" all pairs on the `limits`
\* line, "rep" one `limits` line per pair.
LimitLines(layout, lims) ==
    CASE lims = <<>> -> <<>>
      [] layout = "cont" ->
           << <<W("limits"), LP(lims[1][1]), RP(lims[1][2])>> >> \o
           [i \in 1..(Len(lims) - 1) |-> <<LP(lims[i + 1][1]), RP(lims[i + 1][2])>>]
      [] layout = "same" ->
           << <<W("limits")>> \o
              [i \in 1..(2 * Len(lims)) |->
                  IF i % 2 = 1 THEN LP(lims[(i + 1) \div 2][1])
                  ELSE RP(lims[i \div 2][2])] >>
      [] OTHER ->
           [i \in 1..Len(lims) |-> <<W("limits"), LP(lims[i][1]), RP(lims[i][2])>>]

Block(b) ==
    << <<W("begin")>>,
       <<W("id"), N(1)>>,
       <<W("name"), W(b.name)>>,
       <<W("direction"), N(b.direction[1]), N(b.direction[2]), N(b.direction[3])>>,
       <<W("length"), N(b.length)>>,
       <<W("axis"), N(b.axis[1]), N(b.axis[2]), N(b.axis[3]), W("XYZ")>> >>
    \o (IF b.dof = <<>> THEN <<>>
        ELSE << <<W("dof")>> \o [i \in DOMAIN b.dof |-> W(b.dof[i])] >>)
    \o LimitLines(b.layout, b.lims)
    \o << <<W("end")>> >>

RECURSIVE Flat(_)
Flat(ls) == IF ls = <<>> THEN <<>> ELSE Head(ls) \o Flat(Tail(ls))

RECURSIVE Blocks(_)
Blocks(bs) == IF bs = <<>> THEN <<>> ELSE Block(Head(bs)) \o Blocks(Tail(bs))

HierLine(p, cs) == <<W(p)>> \o [i \in DOMAIN cs |-> W(cs[i])]

AsfFile(bs, hier) ==
    << <<W(":version"), W("1.10")>>, <<W(":bonedata")>> >>
    \o Blocks(bs)
    \o << <<W(":hierarchy")>>, <<W("begin")>> >>
    \o hier
    \o << <<W("end")>> >>

\* The motion file of a sequence of frames; a frame is a sequence of
\* [name, vals] channel lines.
FrameLines(n, f) ==
    << <<N(n)>> >> \o [i \in DOMAIN f |-> <<W(f[i].name)>> \o
                          [k \in DOMAIN f[i].vals |-> N(f[i].vals[k])]]

RECURSIVE AllFrameLines(_, _)
AllFrameLines(fs, n) ==
    IF fs = <<>> THEN <<>>
    ELSE FrameLines(n, Head(fs)) \o AllFrameLines(Tail(fs), n + 1)

AmcFile(fs) ==
    << <<W(":FULLY-SPECIFIED")>>, <<W(":DEGREES")>> >> \o AllFrameLines(fs, 1)

\* Bone descriptors.  a and b differ in direction, length and axis.
Bone(name, dof, layout, lims) ==
    [name |-> name,
     direction |-> IF name = "a" THEN <<0, 1, 0>> ELSE <<1, 0, 0>>,
     length |-> IF name = "a" THEN 2 ELSE 1,
     axis |-> IF name = "a" THEN <<0, 0, 90>> ELSE <<0, 0, 0>>,
     dof |-> dof, layout |-> layout, lims |-> lims]

Wide == <<-90, 90>>

\* The DOF declarations of bone a in the viewer runs: none; one axis; two
\* axes out of x, y, z order; the Acclaim layout with two and three axes; an
\* axis whose limits are (0, 0).
BonesA ==
    { Bone("a", <<>>, "cont", <<>>),
      Bone("a", <<"rx">>, "cont", <<Wide>>),
      Bone("a", <<"rz", "rx">>, "rep", <<Wide, Wide>>),
      Bone("a", <<"rx", "ry">>, "cont", <<Wide, Wide>>),
      Bone("a", <<"rx", "ry", "rz">>, "rep", <<Wide, Wide, Wide>>),
      Bone("a", <<"ry">>, "cont", <<Zeros2>>) }

BonesB ==
    { Bone("b", <<>>, "cont", <<>>),
      Bone("b", <<"rz">>, "cont", <<Wide>>) }

Chain == << HierLine("root", <<"a">>), HierLine("a", <<"b">>) >>
Star == << HierLine("root", <<"a", "b">>) >>

\* Hierarchy sections of up to MaxHierLines lines over root, a and b: every
\* line with one child, and the line that lists a and b under root.
MaxHierLines == 2
HNames == {"root", "a", "b"}
HierLines ==
    {HierLine(p, <<c>>) : p \in HNames, c \in HNames}
    \cup {HierLine("root", <<"a", "b">>)}
Hierarchies == UNION {[1..n -> HierLines] : n \in 0..MaxHierLines}

\* Hierarchy sections of the viewer runs: a tree (b below a, a and b below
\* root, or a alone with b left unattached) followed by up to MaxExtraLines
\* further lines, each naming one parent and one child.
MaxExtraLines == 1
OnlyA == << HierLine("root", <<"a">>) >>
ExtraLines == {HierLine(p, <<c>>) : p \in HNames, c \in HNames}
ViewedHierarchies ==
    { base \o extra : base \in {Chain, Star, OnlyA},
                      extra \in UNION {[1..n -> ExtraLines] : n \in 0..MaxExtraLines} }

\* Frames of the motion files: a has three values, two values, one value and
\* no line at all.
Ch(name, vals) == [name |-> name, vals |-> vals]
FrameList ==
    << << Ch("root", <<1, 2, 3, 0, 0, 90>>), Ch("a", <<90, 180, 270>>), Ch("b", <<180>>) >>,
       << Ch("root", <<0, 0, 0, 90, 0, 0>>), Ch("a", <<180, 90>>), Ch("b", <<90>>) >>,
       << Ch("root", <<1, 2, 3, 0, 0, 90>>), Ch("a", <<270>>), Ch("b", <<180>>) >>,
       << Ch("root", <<0, 0, 0, 90, 0, 0>>), Ch("b", <<90>>) >> >>

\* The motion files: NumFrames different frames of FrameList, in its order.
FrameSeqs ==
    { [i \in 1..NumFrames |-> FrameList[pick[i]]] :
        pick \in { q \in [1..NumFrames -> DOMAIN FrameList] :
                     \A i \in 1..(NumFrames - 1) : q[i] < q[i + 1] } }
TwoFrames == <<FrameList[1], FrameList[2]>>

\* A motion file whose second frame gives root four values: the translation
\* and one angle.
ShortRootFrames ==
    << FrameList[1],
       << Ch("root", <<4, 5, 6, 0>>), Ch("a", <<90, 180>>), Ch("b", <<90>>) >> >>

\* A skeleton with more bones than the drivers create line objects: NumLines
\* + ExtraBones bones without DOF, all listed under root on one line.
NumLines == 20
ExtraBones == 1
ManyNames ==
    SubSeq(<< "j01", "j02", "j03", "j04", "j05", "j06", "j07", "j08", "j09", "j10", "j11", "j12",
              "j13", "j14", "j15", "j16", "j17", "j18", "j19", "j20", "j21", "j22", "j23" >>,
           1, NumLines + ExtraBones)
ManyBonesFile ==
    AsfFile([i \in DOMAIN ManyNames |-> Bone(ManyNames[i], <<>>, "cont", <<>>)],
            << HierLine("root", ManyNames) >>)

\* ------------------------------------------------------------ viewer runs
\* What is recorded of a viewer call: everything but the joint objects.
Shown(r) == [status |-> r.status, applied |-> r.applied, visits |-> r.visits,
             coords |-> r.coords, segs |-> r.segs]


\* The notebook run: load the two files (section 1.4), then call the viewers
\* on the loaded skeleton and motion in any order.
\* last.held is the frame most recently applied (or tried) on the loaded
\* skeleton, last.before the one it held when the last call began.
NoCall == [op |-> "none", frame |-> -1, md |-> FALSE, held |-> -1, before |-> -1]

Init ==
    /\ pc = "start"
    /\ \/ \E ba \in BonesA, bb \in BonesB, h \in {Chain, Star}, fs \in FrameSeqs :
             asf = AsfFile(<<ba, bb>>, h) /\ amc = AmcFile(fs)
       \/ \E h \in ViewedHierarchies :
             /\ asf = AsfFile(<<Bone("a", <<"rz", "rx">>, "rep", <<Wide, Wide>>),
                                Bone("b", <<"rz">>, "cont", <<Wide>>)>>, h)
             /\ amc = AmcFile(TwoFrames)
       \/ asf = ManyBonesFile /\ amc = AmcFile(TwoFrames)
       \/ /\ asf = AsfFile(<<Bone("a", <<"rz", "rx">>, "rep", <<Wide, Wide>>),
                             Bone("b", <<"rz">>, "cont", <<Wide>>)>>, Chain)
          /\ amc = AmcFile(ShortRootFrames)
    /\ joints = NoneVal
    /\ motions = NoneVal
    /\ err = "ok"
    /\ last = NoCall
    /\ rendered = Shown(Outcome("none", NoneVal, -1, <<>>, <<>>, <<>>))
    /\ drv = NoDriver

\* joints = parse_asf(asf_path); motions = parse_amc(amc_path).
Load ==
    /\ pc = "start"
    /\ \E s \in {parse_asf(asf)}, m \in {parse_amc(amc)} :
           /\ joints' = s.joints
           /\ motions' = IF s.status = "ok" THEN m.frames ELSE NoneVal
           /\ err' = IF s.status # "ok" THEN s.status ELSE m.status
           /\ pc' = IF s.status = "ok" /\ m.status = "ok" THEN "loaded" ELSE "failed"
    /\ UNCHANGED <<asf, amc, last, rendered, drv>>

\* update_3d_scene(joints, motions, k, ...) on the loaded skeleton.
Update3dScene(k) ==
    /\ pc = "loaded"
    /\ \E r \in {update_3d_scene(joints, motions, k, NumLines)} :
           /\ joints' = r.joints
           /\ rendered' = Shown(r)
           /\ last' = [op |-> "update_3d_scene", frame |-> k, md |-> TRUE,
                       held |-> IF r.applied >= 0 THEN k ELSE last.held,
                       before |-> last.held]
    /\ UNCHANGED <<pc, asf, amc, motions, err, drv>>

\* visualize_skeleton(joints, motion_data=..., motion_frame=k).
VisualizeSkeleton(k, withMotion) ==
    /\ pc = "loaded"
    /\ \E r \in {visualize_skeleton(joints, IF withMotion THEN motions ELSE NoneVal, k)} :
           /\ rendered' = Shown(r)
           /\ joints' = r.joints
           /\ last' = [op |-> "visualize_skeleton", frame |-> k, md |-> withMotion,
                       held |-> last.held, before |-> last.held]
    /\ UNCHANGED <<pc, asf, amc, motions, err, drv>>

Next ==
    \/ Load
    \/ \E k \in 0..NumFrames : Update3dScene(k)
    \/ \E k \in 0..NumFrames : VisualizeSkeleton(k, TRUE)
    \/ VisualizeSkeleton(0, FALSE)

Spec == Init /\ [][Next]_vars

\* ------------------------------------------------------------ parser runs
\* parse_asf alone, on skeleton files whose bone a declares every list of
\* different DOF tags in every layout, and on files with every hierarchy
\* section of Hierarchies.
Pairs == << <<-10, 10>>, <<-20, 20>>, <<-30, 30>> >>
Tags == {"rx", "ry", "rz"}
DofLists ==
    UNION { {d \in [1..k -> Tags] : \A i, j \in 1..k : i # j => d[i] # d[j]} :
            k \in 0..Cardinality(Tags) }
AsfBlockInputs ==
    { AsfFile(<<Bone("a", d, layout, SubSeq(Pairs, 1, Len(d))),
                Bone("b", <<"rz">>, "cont", <<Wide>>)>>, Chain) :
        d \in DofLists, layout \in {"cont", "same", "rep"} }
AsfHierInputs ==
    { AsfFile(<<Bone("a", <<"rx">>, "cont", <<Wide>>),
                Bone("b", <<"rz">>, "cont", <<Wide>>)>>, h) : h \in Hierarchies }

\* Skeleton files of three bone blocks, one of which leaves out one of the
\* lines name, direction, length and axis.
Required == {"name", "direction", "length", "axis"}
BlockWithout(b, field) == SelectSeq(Block(b), LAMBDA l : l[1] # W(field))
AsfFileWithout(bs, who, field, hier) ==
    << <<W(":version"), W("1.10")>>, <<W(":bonedata")>> >>
    \o Flat([i \in DOMAIN bs |->
                IF i = who THEN BlockWithout(bs[i], field) ELSE Block(bs[i])])
    \o << <<W(":hierarchy")>>, <<W("begin")>> >>
    \o hier
    \o << <<W("end")>> >>
AsfMissingInputs ==
    { AsfFileWithout(<<Bone("a", <<"rx">>, "cont", <<Wide>>),
                       Bone("b", <<"rz">>, "cont", <<Wide>>),
                       Bone("c", <<>>, "cont", <<>>)>>, who, field, Chain) :
        who \in 1..3, field \in Required }

\* Skeleton files that define a and b and whose hierarchy section has a line
\* naming x, as parent, as child, or after a child that is defined; the line
\* stands alone, or after and before lines that name defined joints only.
UnresolvedLines ==
    {HierLine(p, <<c>>) : p \in {"x"}, c \in HNames \cup {"x"}}
    \cup {HierLine(p, <<"x">>) : p \in HNames}
    \cup {HierLine("root", <<"a", "x">>)}
AsfUnresolvedInputs ==
    { AsfFile(<<Bone("a", <<"rx">>, "cont", <<Wide>>),
                Bone("b", <<"rz">>, "cont", <<Wide>>)>>,
              before \o <<l>> \o after) :
        l \in UnresolvedLines,
        before \in {<<>>, OnlyA, Star},
        after \in {<<>>, <<HierLine("a", <<"b">>)>>} }

InitAsf ==
    /\ pc = "start"
    /\ asf \in AsfBlockInputs \cup AsfHierInputs \cup AsfMissingInputs
                 \cup AsfUnresolvedInputs
    /\ amc = AmcFile(TwoFrames)
    /\ joints = NoneVal
    /\ motions = NoneVal
    /\ err = "ok"
    /\ last = NoCall
    /\ rendered = Shown(Outcome("none", NoneVal, -1, <<>>, <<>>, <<>>))
    /\ drv = NoDriver

\* joints = parse_asf(asf_path).
ParseAsf ==
    /\ pc = "start"
    /\ \E s \in {parse_asf(asf)} :
           /\ joints' = s.joints
           /\ err' = s.status
           /\ pc' = IF s.status = "ok" THEN "parsed" ELSE "failed"
    /\ UNCHANGED <<asf, amc, motions, last, rendered, drv>>

SpecAsf == InitAsf /\ [][ParseAsf]_vars

\* parse_amc alone, on every motion file of up to MaxAmcLines lines after the
\* :DEGREES marker, each a frame delimiter, a channel line or a blank line.
MaxAmcLines == 4
AmcLines ==
    { <<N(1)>>, <<N(7)>>, <<>>,
      <<W("root"), N(1), N(2), N(3), N(0), N(0), N(90)>>,
      <<W("a"), N(90)>>,
      <<W("a"), N(180), N(270)>> }
AmcInputs ==
    { << <<W(":FULLY-SPECIFIED")>>, <<W(":DEGREES")>> >> \o body :
        body \in UNION {[1..n -> AmcLines] : n \in 0..MaxAmcLines} }

InitAmc ==
    /\ pc = "start"
    /\ asf = AsfFile(<<Bone("a", <<"rx">>, "cont", <<Wide>>)>>, OnlyA)
    /\ amc \in AmcInputs
    /\ joints = NoneVal
    /\ motions = NoneVal
    /\ err = "ok"
    /\ last = NoCall
    /\ rendered = Shown(Outcome("none", NoneVal, -1, <<>>, <<>>, <<>>))
    /\ drv = NoDriver

\* motions = parse_amc(amc_path).
ParseAmc ==
    /\ pc = "start"
    /\ \E m \in {parse_amc(amc)} :
           /\ motions' = m.frames
           /\ err' = m.status
           /\ pc' = IF m.status = "ok" THEN "parsed" ELSE "failed"
    /\ UNCHANGED <<asf, amc, joints, last, rendered, drv>>

SpecAmc == InitAmc /\ [][ParseAmc]_vars

\* ------------------------------------------------------------ drivers
\* The animation and the dashboard, on a skeleton with a and b below root
\* and a motion file of NumDriveFrames frames; frame f moves root to
\* (f, 0, 0) and turns a by f quarter turns, so that no two frames put both
\* root and a in the same place.
NumDriveFrames == 3
DriveFrame(f) ==
    << Ch("root", <<f, 0, 0, 0, 0, 0>>), Ch("a", <<90 * (f % 4)>>), Ch("b", <<90>>) >>
DriveFrames == [i \in 1..NumDriveFrames |-> DriveFrame(i - 1)]

\* A video file is the sequence of its pictures; the picture taken at
\* capture frame c is c, and the file starts at capture frame 0.
VideoFile(n) == [i \in 1..n |-> i - 1]
VideoLengths == {NumDriveFrames - 1, NumDriveFrames}
Blank == -1

\* range(start, stop) as a list.
range(start, stop) ==
    IF stop <= start THEN <<>> ELSE [i \in 1..(stop - start) |-> start + i - 1]

\* The clamp both drivers begin with; NoEnd stands for end_frame=None.
NoEnd == -1
clamp_end(end_frame, ms) ==
    IF end_frame = NoEnd THEN Len(ms)
    ELSE IF end_frame > Len(ms) THEN Len(ms) ELSE end_frame

\* load_video_frames(video_path, max_frames): pictures from the start of the
\* file, until max_frames are read or the file ends.
load_video_frames(video, max_frames) ==
    SubSeq(video, 1, IF max_frames < Len(video) THEN max_frames ELSE Len(video))

\* In the loops below a one-element set binds the value of a call, so that
\* it is computed once.
\* The frames FuncAnimation(fig, update, frames=n) hands to update, one pass:
\* 0, 1, ..., n-1.  [status, joints, pass, reads, shown]: the frames applied,
\* the indexes used to read motions, the outcome of the last call.
RECURSIVE animation_pass(_, _, _, _, _)
animation_pass(js, ms, i, n, acc) ==
    IF i >= n THEN acc
    ELSE CHOOSE res \in UNION {
             { IF r.status # "ok" THEN nxt
               ELSE animation_pass(r.joints, ms, i + 1, n, nxt) :
                 nxt \in {[status |-> r.status, joints |-> r.joints,
                           pass |-> IF r.applied >= 0 THEN Append(acc.pass, r.applied)
                                    ELSE acc.pass,
                           reads |-> acc.reads \cup {i},
                           shown |-> Shown(r)]} } :
               r \in {update_3d_scene(js, ms, i, NumLines)} } : TRUE

\* extract_time_series_data(joints, motions, frames, selected):
\* [status, joints, ts, reads].
RECURSIVE marker_loop(_, _, _, _, _)
marker_loop(js, keys, selected, i, ts) ==
    IF i > Len(selected) THEN ts
    ELSE LET m == selected[i]
         IN  marker_loop(js, keys, selected, i + 1,
                 IF m \in Range(keys)
                 THEN [ts EXCEPT ![m] = Append(@, js[m].coordinate)]
                 ELSE ts)

\* One round of the frames loop on frame f.
extract_frame(js, ms, f, selected, acc) ==
    IF f >= Len(ms)
    THEN [acc EXCEPT !.status = "IndexError", !.reads = @ \cup {f}]
    ELSE CHOOSE res \in UNION {
             { IF r.status # "ok"
               THEN [acc EXCEPT !.status = r.status, !.joints = r.joints,
                                !.reads = @ \cup {f}]
               ELSE IF d.status # "ok"
               THEN [acc EXCEPT !.status = d.status, !.joints = r.joints,
                                !.reads = @ \cup {f}]
               ELSE [status |-> "ok", joints |-> r.joints,
                     ts |-> marker_loop(r.joints, d.keys, selected, 1, acc.ts),
                     reads |-> acc.reads \cup {f}] :
                 d \in {to_dict(r.joints, "root", 1)} } :
               r \in {ApplyFrame(js, ms[f + 1])} } : TRUE

RECURSIVE extract_loop(_, _, _, _, _)
extract_loop(ms, frames, i, selected, acc) ==
    IF i > Len(frames) THEN acc
    ELSE CHOOSE res \in
             { IF nxt.status # "ok" THEN nxt
               ELSE extract_loop(ms, frames, i + 1, selected, nxt) :
                 nxt \in {extract_frame(acc.joints, ms, frames[i], selected, acc)} } : TRUE

extract_time_series_data(js, ms, frames, selected) ==
    extract_loop(ms, frames, 1, selected,
                 [status |-> "ok", joints |-> js,
                  ts |-> [m \in Range(selected) |-> <<>>], reads |-> {}])

\* The line objects init_3d_plot creates for the bones.
DashLines == 20

\* update(i) that draws a skeleton already posed as it stands, without
\* applying its frame.
dashboard_update_stale(d, js, ms, i) ==
    CHOOSE res \in
        { [status |-> r.status, joints |-> r.joints, shown |-> Shown(r),
           read |-> d.frames[i + 1],
           video |-> IF r.status = "ok" /\ i < Len(d.video_frames)
                     THEN d.video_frames[i + 1] ELSE d.video,
           cursor |-> IF r.status = "ok" THEN i ELSE d.cursor] :
            r \in {IF js["root"].coordinate = NoneVal
                   THEN update_3d_scene(js, ms, d.frames[i + 1], DashLines)
                   ELSE draw(js, d.frames[i + 1], <<>>, DashLines)} } : TRUE

\* update(i) of create_animation: [status, joints, shown, video, cursor, read].
dashboard_update(d, js, ms, i) ==
    CHOOSE res \in
        { [status |-> r.status, joints |-> r.joints, shown |-> Shown(r),
           read |-> d.frames[i + 1],
           video |-> IF r.status = "ok" /\ i < Len(d.video_frames)
                     THEN d.video_frames[i + 1] ELSE d.video,
           cursor |-> IF r.status = "ok" THEN i ELSE d.cursor] :
            r \in {update_3d_scene(js, ms, d.frames[i + 1], DashLines)} } : TRUE

\* The driver started last: the range asked for, its end after the clamp, the
\* frames list, the
\* pictures loaded, the time series, whether the timer runs and the index it
\* hands out next, the callback that ran last and its argument, the frames
\* the callbacks applied since the pass began, every index used to read
\* motions, the picture shown and the place of the cursor.
Driver(kind, start, end_frame, end, frames, video_frames, ts) ==
    [kind |-> kind, start |-> start, end_frame |-> end_frame, end |-> end,
     frames |-> frames,
     video_frames |-> video_frames, ts |-> ts,
     running |-> kind = "dashboard", tick |-> 0, step |-> "created", arg |-> -1,
     pass |-> <<>>, reads |-> {},
     video |-> IF video_frames = <<>> THEN Blank ELSE video_frames[1],
     cursor |-> 0]

InitDrive ==
    /\ pc = "start"
    /\ asf = AsfFile(<<Bone("a", <<"rx">>, "cont", <<Wide>>),
                       Bone("b", <<"rz">>, "cont", <<Wide>>)>>, Star)
    /\ amc = AmcFile(DriveFrames)
    /\ joints = NoneVal
    /\ motions = NoneVal
    /\ err = "ok"
    /\ last = NoCall
    /\ rendered = Shown(Outcome("none", NoneVal, -1, <<>>, <<>>, <<>>))
    /\ drv = NoDriver

\* create_3d_animation(joints, motions, start_frame, end_frame), to_jshtml
\* drawing every frame of the animation once.
Create3dAnimation(start_frame, end_frame) ==
    /\ pc = "loaded"
    /\ drv.kind = "none"
    /\ \E end \in {clamp_end(end_frame, motions)} :
       \E frames_to_show \in {range(start_frame, end)} :
       \E a \in {animation_pass(joints, motions, 0, Len(frames_to_show),
                     [status |-> "ok", joints |-> joints, pass |-> <<>>,
                      reads |-> {}, shown |-> rendered])} :
           /\ joints' = a.joints
           /\ rendered' = a.shown
           /\ err' = a.status
           /\ drv' = [Driver("animation", start_frame, end_frame, end, frames_to_show,
                                <<>>, <<>>)
                         EXCEPT !.pass = a.pass, !.reads = a.reads,
                                !.tick = Len(a.pass), !.step = "pass"]
    /\ UNCHANGED <<pc, asf, amc, motions, last>>

\* create_mocap_dashboard(video_path, joints, motions, selected_markers,
\* start_frame, end_frame).
CreateMocapDashboard(video, selected, start_frame, end_frame) ==
    /\ pc = "loaded"
    /\ drv.kind \in {"none", "animation"}
    /\ \E end \in {clamp_end(end_frame, motions)} :
       \E frames \in {range(start_frame, end)} :
       \E video_frames \in {load_video_frames(video, Len(frames))} :
           IF Len(video_frames) # Len(frames)
           THEN /\ err' = "AssertionError"
                /\ UNCHANGED <<joints, rendered, drv>>
           ELSE \E t \in {extract_time_series_data(joints, motions, frames, selected)} :
                    /\ joints' = t.joints
                    /\ err' = t.status
                    /\ drv' = IF t.status # "ok" THEN drv
                              ELSE [Driver("dashboard", start_frame, end_frame, end,
                                           frames, video_frames, t.ts)
                                       EXCEPT !.reads = t.reads]
                    /\ UNCHANGED rendered
    /\ UNCHANGED <<pc, asf, amc, motions, last>>

\* The animation timer fires: update(i) with the next index of the frames
\* sequence, which starts over after the last.
TimerTick ==
    /\ pc = "loaded"
    /\ drv.kind = "dashboard"
    /\ drv.running /\ drv.frames # <<>>
    /\ \E u \in {dashboard_update(drv, joints, motions, drv.tick)} :
           /\ joints' = u.joints
           /\ rendered' = u.shown
           /\ err' = u.status
           /\ drv' = [drv EXCEPT
                  !.step = "tick", !.arg = drv.tick,
                  !.tick = (drv.tick + 1) % Len(drv.frames),
                  !.pass = IF u.shown.applied < 0 THEN
                               (IF drv.tick = 0 THEN <<>> ELSE @)
                           ELSE IF drv.tick = 0 THEN <<u.shown.applied>>
                           ELSE Append(@, u.shown.applied),
                  !.reads = @ \cup {u.read},
                  !.video = u.video, !.cursor = u.cursor]
    /\ UNCHANGED <<pc, asf, amc, motions, last>>

\* on_slider_change with change['new'] = v: the timer is stopped, then
\* update(v).
SliderChange(v) ==
    /\ pc = "loaded"
    /\ drv.kind = "dashboard"
    /\ v \in 0..(Len(drv.frames) - 1)
    /\ \E u \in {dashboard_update([drv EXCEPT !.running = FALSE], joints, motions, v)} :
           /\ joints' = u.joints
           /\ rendered' = u.shown
           /\ err' = u.status
           /\ drv' = [drv EXCEPT
                  !.running = FALSE, !.step = "slider", !.arg = v,
                  !.reads = @ \cup {u.read},
                  !.video = u.video, !.cursor = u.cursor]
    /\ UNCHANGED <<pc, asf, amc, motions, last>>

Markers == { <<"a">>, <<"root", "head">> }
NextDrive ==
    \/ Load
    \/ \E s \in 0..NumDriveFrames, e \in {NoEnd} \cup 0..(NumDriveFrames + 1) :
           Create3dAnimation(s, e)
    \/ \E n \in VideoLengths, sel \in Markers,
          s \in 0..NumDriveFrames, e \in {NoEnd} \cup 0..(NumDriveFrames + 1) :
           CreateMocapDashboard(VideoFile(n), sel, s, e)
    \/ TimerTick
    \/ \E v \in 0..(NumDriveFrames - 1) : SliderChange(v)

SpecDrive == InitDrive /\ [][NextDrive]_vars

\* ----------------------------------------------------- shared skeleton
\* One loaded skeleton handed to the three renderer paths in any order:
\* update_3d_scene, visualize_skeleton and extract_time_series_data over a
\* range of one or two frames.  a and b hang below root side by side or in
\* a chain.
InitShare ==
    /\ pc = "start"
    /\ \E h \in {Chain, Star} :
           asf = AsfFile(<<Bone("a", <<"rx">>, "cont", <<Wide>>),
                           Bone("b", <<"rz">>, "cont", <<Wide>>)>>, h)
    /\ amc = AmcFile(DriveFrames)
    /\ joints = NoneVal
    /\ motions = NoneVal
    /\ err = "ok"
    /\ last = NoCall
    /\ rendered = Shown(Outcome("none", NoneVal, -1, <<>>, <<>>, <<>>))
    /\ drv = NoDriver

\* The largest of a non-empty set of numbers.
Highest(S) == CHOOSE x \in S : \A y \in S : y <= x

\* extract_time_series_data(joints, motions, range(start, stop), selected)
\* on the loaded skeleton.
ExtractTimeSeriesData(start, stop, selected) ==
    /\ pc = "loaded"
    /\ \E frames \in {range(start, stop)} :
       \E t \in {extract_time_series_data(joints, motions, frames, selected)} :
       \E applied \in {{f \in t.reads : f < Len(motions)}} :
           /\ joints' = t.joints
           /\ drv' = [kind |-> "series", status |-> t.status, frames |-> frames,
                      ts |-> t.ts, reads |-> t.reads]
           /\ last' = [op |-> "extract_time_series_data",
                       frame |-> IF frames = <<>> THEN -1 ELSE frames[Len(frames)],
                       md |-> TRUE,
                       held |-> IF applied = {} THEN last.held ELSE Highest(applied),
                       before |-> last.held]
    /\ UNCHANGED <<pc, asf, amc, motions, err, rendered>>

NextShare ==
    \/ Load
    \/ \E k \in 0..NumDriveFrames : Update3dScene(k)
    \/ \E k \in 0..NumDriveFrames : VisualizeSkeleton(k, TRUE)
    \/ VisualizeSkeleton(0, FALSE)
    \/ \E s \in 0..(NumDriveFrames - 1), n \in 1..2, sel \in Markers :
           ExtractTimeSeriesData(s, s + n, sel)

SpecShare == InitShare /\ [][NextShare]_vars

\* ------------------------------------------------- what the files declare
\* Read off the text of the skeleton file, independently of the parser: the
\* lines of the bone block named `name`, the DOF tags it declares and the
\* parenthesized pairs it writes, in order.
HierarchyAt == CHOOSE i \in DOMAIN asf : asf[i] = <<W(":hierarchy")>>
BlockStarts == {i \in 1..(HierarchyAt - 1) : asf[i] = <<W("begin")>>}
BlockEnd(i) == CHOOSE j \in (i + 1)..Len(asf) :
                   /\ asf[j] = <<W("end")>>
                   /\ \A m \in (i + 1)..(j - 1) : asf[m] # <<W("end")>>
BlockLines(i) == SubSeq(asf, i + 1, BlockEnd(i) - 1)
BlockNamed(name) ==
    LET starts == {i \in BlockStarts : <<W("name"), W(name)>> \in Range(BlockLines(i))}
    IN  IF starts = {} THEN <<>>
        ELSE BlockLines(CHOOSE i \in starts : \A m \in starts : m <= i)
WrittenDof(name) ==
    LET ls == SelectSeq(BlockNamed(name), LAMBDA l : l[1] = W("dof"))
    IN  IF ls = <<>> THEN <<>> ELSE [i \in 1..(Len(ls[1]) - 1) |-> ls[1][i + 1][2]]
RECURSIVE Flatten(_)
Flatten(ls) == IF ls = <<>> THEN <<>> ELSE Head(ls) \o Flatten(Tail(ls))
RECURSIVE PairsOf(_)
PairsOf(toks) ==
    IF Len(toks) < 2 THEN <<>>
    ELSE IF toks[1][1] = "(n" /\ toks[2][1] = "n)"
    THEN << <<toks[1][2], toks[2][2]>> >> \o PairsOf(Tail(Tail(toks)))
    ELSE PairsOf(Tail(toks))
WrittenPairs(name) == PairsOf(Flatten(BlockNamed(name)))

\* The joints reachable from root through children lists.
RECURSIVE ReachableFrom(_, _, _)
ReachableFrom(js, frontier, seen) ==
    IF frontier \subseteq seen THEN seen
    ELSE ReachableFrom(js, UNION {Range(js[n].children) : n \in frontier},
                        seen \cup frontier)
Reachable(js) == ReachableFrom(js, {"root"}, {})

\* The skeleton as parse_asf returns it, before any frame is applied.
FreshSkeleton == parse_asf(asf).joints

\* How often joint n occurs in a sequence of names.
Count(seq, n) == Cardinality({i \in DOMAIN seq : seq[i] = n})

\* A viewer call applied frame k to a skeleton and returned normally.
FrameIndexes == 0..(NumFrames - 1)
AppliedOk(k) == rendered.status = "ok" /\ rendered.applied = k /\ k >= 0
\* update_3d_scene was the last call and tried frame k on the loaded skeleton.
Updated(k) == last.op = "update_3d_scene" /\ rendered.applied = k /\ k >= 0

\* ------------------------------------------------------------------ C1
\* The rotation vector the claim describes: the i-th channel value in the
\* slot of the i-th declared tag, zero in every slot no tag names.
TagRotation(dof, vals) ==
    [ax \in 1..3 |->
        IF \E i \in DOMAIN dof : LimitSlot(dof[i]) = ax
        THEN vals[CHOOSE i \in DOMAIN dof : LimitSlot(dof[i]) = ax]
        ELSE 0]

\* C1 (as claimed): whenever set_motion has run over a non-root joint whose
\* frame entry has one value per declared DOF tag, the local rotation it
\* built holds the i-th value in the slot named by the i-th tag and zero
\* elsewhere.
C1_ChannelsPlacedByDeclaredTag ==
    \A k \in FrameIndexes : (Updated(k) /\ AppliedOk(k)) =>
        \A j \in Range(rendered.visits) \ {"root"} :
            LET dof == WrittenDof(j)
                m == motions[k + 1]
            IN  (j \in DOMAIN m /\ Len(m[j]) = Len(dof)) =>
                    LocalRotation(joints[j], m).rotation = TagRotation(dof, m[j])

\* ------------------------------------------------------------------ C6
\* The frame has an entry for root with six values and, for every other
\* joint reachable from root, an entry with a value per declared tag.
CarriesAllChannels(m) ==
    /\ "root" \in DOMAIN m /\ Len(m["root"]) = 6
    /\ \A j \in Reachable(joints) \ {"root"} :
           j \in DOMAIN m /\ Len(m[j]) >= Len(WrittenDof(j))

\* C6 (as claimed): on any skeleton parse_asf returned, set_motion of a frame
\* that carries all channels returns, and has then computed every joint
\* reachable from root exactly once.
C6_SetMotionSinglePass ==
    \A k \in FrameIndexes : (Updated(k) /\ CarriesAllChannels(motions[k + 1])) =>
        /\ rendered.status = "ok"
        /\ \A j \in Reachable(joints) : Count(rendered.visits, j) = 1

\* ------------------------------------------------------------------ C7
\* C7 (as claimed): when the frame applied has no entry, or too short an
\* entry, for a reachable joint that declares at least one DOF, the call
\* ends in KeyError or IndexError (or has failed before it came to that
\* joint); it never returns normally.
C7_MissingChannelFails ==
    \A k \in FrameIndexes : Updated(k) =>
        \A j \in Reachable(joints) \ {"root"} :
            LET dof == WrittenDof(j)
                m == motions[k + 1]
            IN  (dof # <<>> /\ (j \notin DOMAIN m \/ Len(m[j]) < Len(dof))) =>
                    \/ rendered.status \in {"KeyError", "IndexError"}
                    \/ rendered.status # "ok" /\ j \notin Range(rendered.visits)

\* ------------------------------------------------------------------ C9
\* C9: whenever a viewer call has applied frame k and returned, whatever was
\* applied or had failed before, the points it drew are those the same frame
\* gives on the skeleton as parsed, and after update_3d_scene every joint
\* reachable from root holds the matrix and coordinate it gets there.
C9_FrameStateIndependentOfHistory ==
    \A k \in FrameIndexes : AppliedOk(k) =>
        LET f == ApplyFrame(FreshSkeleton, motions[k + 1])
        IN  /\ f.status = "ok"
            /\ rendered.coords = draw(f.joints, k, f.visits, NumLines).coords
            /\ last.op = "update_3d_scene" =>
                   \A j \in Reachable(joints) :
                       /\ joints[j].matrix = f.joints[j].matrix
                       /\ joints[j].coordinate = f.joints[j].coordinate

\* Frame k was applied to a copy of a skeleton that held another frame, or
\* to the skeleton itself after another frame.
C9_Witness ==
    \E k \in FrameIndexes :
        /\ AppliedOk(k)
        /\ last.before \notin {-1, k}
        /\ Cardinality(Reachable(joints)) = 3

\* ----------------------------------------------------------------- C10
\* C10: after update_3d_scene applied frame k and returned, every non-root
\* joint reachable from root has a parent that set_motion computed in this
\* call, and its matrix and coordinate are the claimed products of that
\* parent's current matrix and coordinate.
C10_ChildFollowsParentOfSameFrame ==
    \A k \in FrameIndexes : (Updated(k) /\ AppliedOk(k)) =>
        \A n \in Reachable(joints) \ {"root"} :
            LET j == joints[n]
                p == joints[j.parent]
                loc == LocalRotation(j, motions[k + 1])
            IN  /\ j.parent \in Range(rendered.visits)
                /\ j.matrix = dot(dot(dot(p.matrix, j.C),
                                      euler2mat(deg2rad(loc.rotation))), j.Cinv)
                /\ j.coordinate = vadd(p.coordinate,
                                       scale(j.length, dotv(j.matrix, j.direction)))

\* A second frame was applied to a skeleton that held a different one, and
\* some joint's parent is not root.
C10_Witness ==
    \E k \in FrameIndexes :
        /\ Updated(k) /\ AppliedOk(k)
        /\ last.before \notin {-1, k}
        /\ \E n \in Reachable(joints) : joints[n].parent \notin {NoneRef, "root"}

\* ------------------------------------------------------------------ C4
IsDelimiter(l) == l # <<>> /\ isnumeric(l[1])
IsChannelLine(l) == l # <<>> /\ ~isnumeric(l[1])
DegreesAt(lines) == CHOOSE i \in DOMAIN lines : lines[i] = <<W(":DEGREES")>>
\* Some delimiter line has no channel line between it and the next delimiter
\* (or the end of the text).
ZeroChannelFrame(lines) ==
    \E i \in (DegreesAt(lines) + 1)..Len(lines) :
        /\ IsDelimiter(lines[i])
        /\ LET later == {j \in (i + 1)..Len(lines) : IsDelimiter(lines[j])}
               stop == IF later = {} THEN Len(lines) + 1
                       ELSE CHOOSE j \in later : \A m \in later : j <= m
           IN  \A j \in (i + 1)..(stop - 1) : ~IsChannelLine(lines[j])

\* C4 (as claimed): when the motion text has a zero-channel frame, parse_amc
\* ends in an error and returns no sequence.
C4_ZeroChannelFrameRejected ==
    (pc # "start" /\ ZeroChannelFrame(amc)) => (err # "ok" /\ motions = NoneVal)

\* ------------------------------------------------------------------ C5
\* The joints some hierarchy line attached: they have a parent or stand in a
\* children list.
Attached(js) ==
    {n \in DOMAIN js :
        js[n].parent # NoneRef \/ \E p \in DOMAIN js : n \in Range(js[p].children)}
RECURSIVE AncestorsOf(_, _, _)
AncestorsOf(js, n, steps) ==
    IF steps = 0 \/ js[n].parent = NoneRef THEN {}
    ELSE {js[n].parent} \cup AncestorsOf(js, js[n].parent, steps - 1)

\* C5 (as claimed): in every skeleton parse_asf returns, root exists and has
\* no parent, every other attached joint stands exactly once in the children
\* list of its one parent and in no other, and no joint is its own ancestor.
C5_ParsedSkeletonIsTree ==
    pc = "parsed" =>
        /\ "root" \in DOMAIN joints
        /\ joints["root"].parent = NoneRef
        /\ \A n \in Attached(joints) \ {"root"} :
               /\ joints[n].parent # NoneRef
               /\ \A p \in DOMAIN joints :
                      Count(joints[p].children, n) =
                          IF p = joints[n].parent THEN 1 ELSE 0
        /\ \A n \in DOMAIN joints :
               n \notin AncestorsOf(joints, n, Cardinality(DOMAIN joints))

\* ------------------------------------------------------------------ C8
BoneNames ==
    {l[2][2] : l \in {l \in UNION {Range(BlockLines(i)) : i \in BlockStarts} :
                          l[1] = W("name")}}
\* The limits array the claim describes: the i-th written pair in the slot of
\* the i-th declared tag, (0, 0) in the other slots.
TagLimits(dof, pairs) ==
    [ax \in 1..3 |->
        IF \E i \in DOMAIN dof : LimitSlot(dof[i]) = ax
        THEN pairs[CHOOSE i \in DOMAIN dof : LimitSlot(dof[i]) = ax]
        ELSE Zeros2]

\* C8 (as claimed): for every bone block that writes as many limit pairs as
\* it declares DOF tags, on the limits line or on the lines after it,
\* parse_asf returns and the joint holds the i-th pair as the limits of the
\* axis the i-th tag names.
C8_LimitsStoredPerDeclaredTag ==
    pc # "start" =>
        \A n \in BoneNames :
            Len(WrittenPairs(n)) = Len(WrittenDof(n)) =>
                /\ err = "ok"
                /\ joints[n].limits = TagLimits(WrittenDof(n), WrittenPairs(n))

\* ------------------------------------------------------------------ C2
\* C2 (as claimed): when create_3d_animation has returned for a range with
\* 0 <= start <= end <= len(motions), the motion frames it applied are
\* start, start+1, ..., end-1, in this order, each once.
C2_AnimationAppliesRange ==
    (/\ drv.kind = "animation" /\ err = "ok"
     /\ drv.end_frame # NoEnd
     /\ drv.start <= drv.end_frame /\ drv.end_frame <= Len(motions))
    => drv.pass = range(drv.start, drv.end_frame)

\* ------------------------------------------------------------------ C3
\* The capture frames whose marker positions are those the time series
\* shows at place p.
SeriesFrames(p) ==
    {c \in 0..(Len(motions) - 1) :
        \A m \in DOMAIN drv.ts :
            drv.ts[m] # <<>> =>
                /\ p < Len(drv.ts[m])
                /\ drv.ts[m][p + 1] =
                       ApplyFrame(FreshSkeleton, motions[c + 1]).joints[m].coordinate}

\* C3 (as claimed): after every timer tick and every slider change of the
\* dashboard that drew a frame, the picture shown is that of the capture
\* frame applied to the skeleton, and the cursor of the time series stands
\* on the sample of that capture frame.
C3_DashboardViewsInSync ==
    (drv.kind = "dashboard" /\ drv.step \in {"tick", "slider"}
     /\ rendered.status = "ok")
    => /\ drv.video = rendered.applied
       /\ SeriesFrames(drv.cursor) = {rendered.applied}

\* ----------------------------------------------------------------- C11
\* C11: whenever set_motion of frame k has completed root's own part,
\* whatever root held before, root's coordinate is the first three values of
\* the frame's root entry as they stand; and the first point a viewer draws
\* for a frame it applied is that translation.
C11_RootPositionIsTranslation ==
    \A k \in FrameIndexes :
        LET t == SubSeq(motions[k + 1]["root"], 1, 3)
        IN  /\ (Updated(k) /\ "root" \in Range(rendered.visits)) =>
                   joints["root"].coordinate = t
            /\ AppliedOk(k) =>
                   rendered.coords[1] = [name |-> "root", at |-> zxy(t)]

\* A frame that both moves and turns root was applied to a skeleton whose
\* root held another frame.
C11_Witness ==
    \E k \in FrameIndexes :
        /\ Updated(k) /\ AppliedOk(k)
        /\ last.before \notin {-1, k}
        /\ motions[k + 1]["root"] = <<1, 2, 3, 0, 0, 90>>
        /\ motions[last.before + 1]["root"] # motions[k + 1]["root"]

\* ----------------------------------------------------------------- C12
\* C12 (as claimed): a viewer call that asks for a frame index at or beyond
\* the length of the motion sequence it is given ends in an error, and hands
\* no coordinates to the plot.
C12_FrameBeyondEndIsError ==
    (pc = "loaded" /\ last.op # "none" /\ last.md /\ last.frame >= Len(motions))
    => (rendered.status # "ok" /\ rendered.coords = <<>>)

\* ----------------------------------------------------------------- C13
\* C13 (as claimed): every index a driver has used to read the motion
\* sequence lies in [start_frame, min(end_frame, len(motions))), whatever
\* start_frame and end_frame it was called with.
C13_ReadsWithinRange ==
    drv.kind # "none" =>
        /\ drv.end <= Len(motions)
        /\ \A i \in drv.reads : drv.start <= i /\ i < drv.end

\* ----------------------------------------------------------------- C14
\* The places of the delimiter lines after the :DEGREES marker, in order.
DelimiterPlaces(lines) ==
    SelectSeq([i \in 1..Len(lines) |-> i],
              LAMBDA i : i > DegreesAt(lines) /\ IsDelimiter(lines[i]))
\* The channel lines between the k-th delimiter and the next (or the end).
ChannelLines(lines, k) ==
    LET d == DelimiterPlaces(lines)
        stop == IF k < Len(d) THEN d[k + 1] ELSE Len(lines) + 1
    IN  SelectSeq(SubSeq(lines, d[k] + 1, stop - 1), IsChannelLine)
\* The text after the marker is delimiters, each followed by at least one
\* channel line (blank lines aside).
DelimitedFrames(lines) ==
    /\ ~ZeroChannelFrame(lines)
    /\ \A i \in (DegreesAt(lines) + 1)..Len(lines) :
           IsChannelLine(lines[i]) =>
               \E j \in (DegreesAt(lines) + 1)..(i - 1) : IsDelimiter(lines[j])

\* C14: for a motion text of n delimiters, each followed by at least one
\* channel line, parse_amc returns n frames, and the k-th frame has exactly
\* the joint names of the channel lines of the k-th delimiter, each with the
\* values of a line of that name (of the only one, when the name stands
\* once); the numbers on the delimiter lines play no part.
C14_FramesFollowDelimiters ==
    (pc # "start" /\ DelimitedFrames(amc)) =>
        /\ err = "ok"
        /\ Len(motions) = Len(DelimiterPlaces(amc))
        /\ \A k \in DOMAIN motions :
               LET ch == ChannelLines(amc, k)
               IN  /\ DOMAIN motions[k] = {ch[i][1][2] : i \in DOMAIN ch}
                   /\ \A nm \in DOMAIN motions[k] :
                          \E i \in DOMAIN ch :
                              /\ ch[i][1][2] = nm
                              /\ motions[k][nm] =
                                     [v \in 1..(Len(ch[i]) - 1) |-> ch[i][v + 1][2]]

\* Two frames were returned from a text whose delimiters count downwards,
\* the second frame closed by the end of the text.
C14_Witness ==
    /\ pc = "parsed" /\ DelimitedFrames(amc)
    /\ Len(motions) = 2
    /\ LET d == DelimiterPlaces(amc) IN amc[d[1]][1][2] > amc[d[2]][1][2]

\* ----------------------------------------------------------------- C15
\* The bone block that begins at line i has no line for this field.
Lacks(i, field) == \A l \in Range(BlockLines(i)) : l[1] # W(field)
Complete(i) == \A f \in Required : ~Lacks(i, f)

\* C15: when some bone block of the skeleton file has no name, direction,
\* length or axis line, parse_asf ends in an error and returns no skeleton,
\* wherever the block stands among the others.
C15_IncompleteBlockFails ==
    (pc # "start" /\ \E i \in BlockStarts : ~Complete(i)) =>
        (pc = "failed" /\ err # "ok" /\ joints = NoneVal)

\* parse_asf failed on a file whose incomplete block stands between two
\* complete ones.
C15_Witness ==
    /\ pc = "failed" /\ err = "KeyError"
    /\ \E i, j, k \in BlockStarts :
           i < j /\ j < k /\ Complete(i) /\ ~Complete(j) /\ Complete(k)

\* ----------------------------------------------------------------- C16
\* The lines of the hierarchy section, between its begin and its end.
HierarchyEnd ==
    CHOOSE j \in (HierarchyAt + 2)..Len(asf) :
        /\ asf[j] = <<W("end")>>
        /\ \A m \in (HierarchyAt + 2)..(j - 1) : asf[m] # <<W("end")>>
HierarchyText == SubSeq(asf, HierarchyAt + 2, HierarchyEnd - 1)
Defined == BoneNames \cup {"root"}
Resolved(l) == \A i \in DOMAIN l : l[i][2] \in Defined

\* C16: when a line of the hierarchy section names, as parent or as child, a
\* joint that no bone block defines and that is not root, parse_asf ends in
\* an error and returns no skeleton, whatever the lines before it linked.
C16_UnresolvedNameFails ==
    (pc # "start" /\ \E i \in DOMAIN HierarchyText : ~Resolved(HierarchyText[i])) =>
        (pc = "failed" /\ err # "ok" /\ joints = NoneVal)

\* parse_asf failed on a file of complete blocks in which a line that links
\* defined joints stands before the line with the unknown name.
C16_Witness ==
    /\ pc = "failed" /\ err = "KeyError"
    /\ \A i \in BlockStarts : Complete(i)
    /\ Len(HierarchyText) >= 2
    /\ Resolved(HierarchyText[1])
    /\ \E i \in DOMAIN HierarchyText : ~Resolved(HierarchyText[i])

\* ----------------------------------------------------------------- C17
\* C17 (as claimed): in every frame update_3d_scene has drawn, each non-root
\* joint reachable from root has a bone segment from its coordinate to its
\* parent's, however many joints the skeleton has.
C17_EveryBoneDrawn ==
    \A k \in FrameIndexes : (Updated(k) /\ AppliedOk(k)) =>
        \A n \in Reachable(joints) \ {"root"} :
            \E i \in DOMAIN rendered.segs :
                rendered.segs[i] =
                    [child |-> n, parent |-> joints[n].parent,
                     from |-> zxy(joints[n].coordinate),
                     to |-> zxy(joints[joints[n].parent].coordinate)]

\* ----------------------------------------------------------------- C18
\* The joints of the bone section that no hierarchy line attached: they have
\* no parent and stand in no children list.
Unattached(js) == DOMAIN js \ (Attached(js) \cup {"root"})

\* C18: after update_3d_scene applied a frame and returned, every joint
\* reachable from root has a matrix and a coordinate, and every unattached
\* joint still has neither and is not among the points handed to the plot.
C18_OnlyReachableJointsPosed ==
    \A k \in FrameIndexes : (Updated(k) /\ AppliedOk(k)) =>
        /\ \A n \in Reachable(joints) :
               joints[n].matrix # NoneVal /\ joints[n].coordinate # NoneVal
        /\ \A n \in Unattached(joints) :
               /\ joints[n].matrix = NoneVal /\ joints[n].coordinate = NoneVal
               /\ \A i \in DOMAIN rendered.coords : rendered.coords[i].name # n
        /\ {rendered.coords[i].name : i \in DOMAIN rendered.coords}
               = Reachable(joints)

\* Two different frames were applied, one after the other, to a skeleton
\* with a joint below root and a joint left unattached.
C18_Witness ==
    \E k \in FrameIndexes :
        /\ Updated(k) /\ AppliedOk(k)
        /\ last.before \notin {-1, k}
        /\ Unattached(joints) # {}
        /\ Cardinality(Reachable(joints)) >= 2
\* ----------------------------------------------------------------- C19
\* The state frame k gives the skeleton of the file: every joint as
\* set_motion leaves it on a skeleton that held nothing before.
Posed(k) == ApplyFrame(FreshSkeleton, motions[k + 1]).joints

\* World rotation and position of every joint.
WorldState(js) == [n \in DOMAIN js |-> [coordinate |-> js[n].coordinate,
                                        matrix |-> js[n].matrix]]

\* C19: a call of visualize_skeleton, whatever frame it is asked for and
\* whatever the caller's skeleton held, leaves the world rotation and
\* position of every joint of the caller's skeleton as they were; after
\* update_3d_scene(k) has drawn, and after extract_time_series_data has run
\* over a range of frames, the shared skeleton holds the world state of the
\* frame applied last.
C19_OnlyVisualizeSparesCallersSkeleton ==
    /\ [][ (pc = "loaded" /\ last'.op = "visualize_skeleton")
              => WorldState(joints') = WorldState(joints) ]_vars
    /\ [] ( /\ (last.op = "update_3d_scene" /\ rendered.status = "ok")
                  => WorldState(joints) = WorldState(Posed(last.frame))
            /\ (last.op = "extract_time_series_data" /\ drv.status = "ok"
                  /\ drv.frames # <<>>)
                  => WorldState(joints) = WorldState(Posed(last.frame)) )

\* visualize_skeleton has drawn frame 1 from a skeleton that update_3d_scene
\* or extract_time_series_data had left in frame 2, and the skeleton still
\* holds frame 2.
C19_Witness ==
    /\ last.op = "visualize_skeleton" /\ last.md /\ last.frame = 1
    /\ rendered.status = "ok" /\ rendered.applied = 1
    /\ last.held = 2
    /\ WorldState(joints) = WorldState(Posed(2))
    /\ WorldState(joints) # WorldState(Posed(1))

\* ----------------------------------------------------------------- C20
\* C20 (as claimed): whatever a renderer path reads of a joint's world
\* coordinate was computed in the same call by a set_motion of the frame
\* asked for.  A viewer call that hands points to the plot has applied the
\* frame it was asked for, no viewer call ends reading a coordinate that was
\* never computed, and the i-th value of every series that
\* extract_time_series_data returns is the position its marker has in the
\* i-th frame of the range.
C20_CoordinatesReadAreOfRequestedFrame ==
    /\ (last.op \in {"visualize_skeleton", "update_3d_scene"}
           /\ rendered.coords # <<>>)
          => (rendered.applied = last.frame /\ rendered.applied >= 0)
    /\ (last.op \in {"visualize_skeleton", "update_3d_scene"})
          => rendered.status # "TypeError"
    /\ (last.op = "extract_time_series_data" /\ drv.status = "ok")
          => \A m \in DOMAIN drv.ts : \A i \in DOMAIN drv.ts[m] :
                 drv.ts[m][i] = Posed(drv.frames[i])[m].coordinate

\* ----------------------------------------------------------------- C21
\* The errors set_motion ends in when the frame has no entry for a joint or
\* too few values in it.
ChannelErrors == {"KeyError", "IndexError", "ValueError", "TypeError"}

\* The step is a call of update_3d_scene in which set_motion fails so.
SetMotionFails ==
    /\ pc = "loaded" /\ last'.op = "update_3d_scene"
    /\ last'.frame < Len(motions)
    /\ ApplyFrame(joints, motions[last'.frame + 1]).status \in ChannelErrors

\* What is left of the failing frame on the skeleton of the file.
Attempted(k) == ApplyFrame(FreshSkeleton, motions[k + 1]).joints

\* C21 (as claimed): when set_motion of a frame fails at a joint for a
\* missing entry or too few values, the joints completed before it are a
\* beginning of the depth-first order of the tree and hold the world state
\* of the failing frame, and every other joint, the failing one included,
\* has exactly the world state it had before the call; and after a
\* successful set_motion every joint reachable from root holds the state of
\* that frame, whatever failed before.
C21_FailureLeavesPrefixPosed ==
    /\ [][ SetMotionFails =>
             LET order == to_dict(joints, "root", 1).keys
                 done == rendered'.visits
             IN  /\ Len(done) < Len(order)
                 /\ done = SubSeq(order, 1, Len(done))
                 /\ \A n \in Range(done) :
                        WorldState(joints')[n] = WorldState(Attempted(last'.frame))[n]
                 /\ \A n \in DOMAIN joints \ Range(done) :
                        WorldState(joints')[n] = WorldState(joints)[n] ]_vars
    /\ [] ( (last.op = "update_3d_scene" /\ rendered.status = "ok")
              => \A n \in Reachable(joints) :
                     WorldState(joints)[n] = WorldState(Posed(last.frame))[n] )

\* ----------------------------------------------------------------- C22
\* The points and segments of frame f of the motion, as the plot gets them
\* from a skeleton that holds frame f.
PointsOf(f) ==
    LET keys == to_dict(FreshSkeleton, "root", 1).keys
    IN  [i \in DOMAIN keys |->
            [name |-> keys[i], at |-> zxy(Posed(f)[keys[i]].coordinate)]]
SegmentOf(f, child) ==
    [child |-> child, parent |-> FreshSkeleton[child].parent,
     from |-> zxy(Posed(f)[child].coordinate),
     to |-> zxy(Posed(f)[FreshSkeleton[child].parent].coordinate)]

\* C22: in the dashboard, whatever timer ticks and slider changes ran
\* before on the shared skeleton, a callback invoked with index i draws the
\* joint coordinates and the bone segments of frame frames[i] and of no
\* other frame, and once a slider change has run the timer is stopped.
C22_CallbackDrawsItsOwnFrame ==
    (drv.kind = "dashboard" /\ drv.step \in {"tick", "slider"})
    => /\ rendered.status = "ok"
       /\ rendered.applied = drv.frames[drv.arg + 1]
       /\ rendered.coords = PointsOf(drv.frames[drv.arg + 1])
       /\ \A i \in DOMAIN rendered.segs :
              rendered.segs[i] = SegmentOf(drv.frames[drv.arg + 1],
                                           rendered.segs[i].child)
       /\ {rendered.segs[i].child : i \in DOMAIN rendered.segs}
              = Reachable(FreshSkeleton) \ {"root"}
       /\ (drv.step = "slider" => ~drv.running)

\* A slider change drew its frame on the skeleton that the timer had left
\* in another frame, and the timer is stopped.
C22_Witness ==
    /\ drv.kind = "dashboard" /\ drv.step = "slider" /\ ~drv.running
    /\ drv.pass # <<>>
    /\ drv.pass[Len(drv.pass)] # drv.frames[drv.arg + 1]
    /\ rendered.status = "ok"
    /\ rendered.coords = PointsOf(drv.frames[drv.arg + 1])
    /\ rendered.coords # PointsOf(drv.pass[Len(drv.pass)])

====
